---- MODULE Spec2Model ----
(***************************************************************************)
(* State-machine model of the CUDA rasterization pipeline of               *)
(* src/src/rasterize.cu: rasterizeInit, rasterizeSetBuffers, rasterize     *)
(* (vertex transform, primitive assembly, culling, N*N sample passes of    *)
(* generateFragments + render, sendImageToPBO).                            *)
(*                                                                         *)
(* Numbers.  Floats are modelled as exact fixed-point integers:            *)
(*   - screen coordinates in 1/Sub pixel;                                  *)
(*   - NDC x,y in quarters (a model position p stands for NDC p/4);        *)
(*   - NDC depth z by its reciprocal rz (z = 1/rz, rz >= 1);               *)
(*   - normals in 1/NUnit, colours in 1/CUnit, UV in 1/UVUnit.             *)
(* Kernels run on the default stream: a kernel starts when the one         *)
(* launched before it has finished; the workers (threads) of one kernel    *)
(* interleave freely.                                                      *)
(***************************************************************************)
EXTENDS Integers, Sequences, FiniteSets, TLC

\* ------------------------------------------------------------ constants

\* #define SAMPLES: samples per pixel side (the source ships 1; the model
\* is built with 2 so that a frame has several sample passes).
SAMPLES == 2
\* INT_MAX of <climits>, the initial depth (initDepth) and the depth scale.
INT_MAX == 2147483647
\* enum PrimitiveType
Point == 1
Line == 2
Triangle == 3
\* #define BACKFACE_CULLING 1, PERSP_CORRECT 1
BACKFACE_CULLING == TRUE
PERSP_CORRECT == TRUE
\* #define BILINEAR 1
BILINEAR == TRUE

\* fixed-point units of the model: Sub makes the sample jitter 1/SAMPLES
\* a whole number, NUnit makes the 0.4 light floor a whole number, CUnit
\* makes both 0.4 and the sample weight 1/(SAMPLES*SAMPLES) whole numbers.
Sub == 2 * SAMPLES
NUnit == 2 * 5
CUnit == 5 * SAMPLES * SAMPLES
UVUnit == 2 * 2

\* bounds of the model: mesh primitives per scene
MaxMeshPrims == 2
\* mesh2PrimitivesMap entries after which rasterizeSetBuffers is not called again
MaxMapEntries == 2

\* ------------------------------------------------------------ helpers

Min(a, b) == IF a <= b THEN a ELSE b
Max(a, b) == IF a >= b THEN a ELSE b
Abs(a) == IF a >= 0 THEN a ELSE -a
CeilDiv(a, b) == -((-a) \div b)
Min3(a, b, c) == Min(a, Min(b, c))
Max3(a, b, c) == Max(a, Max(b, c))
\* C++ float-to-int conversion of a / b (b > 0): truncation toward zero
TruncDiv(a, b) == IF a >= 0 THEN a \div b ELSE -((-a) \div b)

\* ------------------------------------------------------------ geometry

\* calculateSignedArea of rasterizeTools.h, doubled (no factor 0.5)
SignedArea2(a, b, c) ==
    (c[1] - a[1]) * (b[2] - a[2]) - (b[1] - a[1]) * (c[2] - a[2])

\* calculateBarycentricCoordinate: the numerators of (alpha, beta, gamma)
\* over the common denominator den = SignedArea2(tri)
BaryNum(tri, pt) ==
    LET den == SignedArea2(tri[1], tri[2], tri[3])
        nb == SignedArea2(tri[1], pt, tri[3])
        ng == SignedArea2(tri[1], tri[2], pt)
    IN  [a |-> den - nb - ng, b |-> nb, g |-> ng, den |-> den]

\* isBarycentricCoordInBounds: alpha, beta, gamma all >= 0 (a zero
\* denominator gives inf or NaN components, which fail the test)
isBarycentricCoordInBounds(bc) ==
    /\ bc.den # 0
    /\ bc.a * bc.den >= 0
    /\ bc.b * bc.den >= 0
    /\ bc.g * bc.den >= 0

\* getAABBForTriangle(tri, width, height): integer bounding box of the
\* three screen points, clamped to the image
getAABBForTriangle(tri, w, h) ==
    [minx |-> Max(0, Min3(tri[1][1], tri[2][1], tri[3][1]) \div Sub),
     maxx |-> Min(w, CeilDiv(Max3(tri[1][1], tri[2][1], tri[3][1]), Sub)),
     miny |-> Max(0, Min3(tri[1][2], tri[2][2], tri[3][2]) \div Sub),
     maxy |-> Min(h, CeilDiv(Max3(tri[1][2], tri[2][2], tri[3][2]), Sub))]

\* the screen triangle of a primitive: vec3(vertexPerspPos) of v[0..2]
TriangleOf(p) == <<p.v[1].vertexPerspPos, p.v[2].vertexPerspPos, p.v[3].vertexPerspPos>>

\* glm::vec2(x, y) + sampleOffset, in 1/Sub pixel
SamplePoint(x, y, sampleOffset) ==
    <<Sub * x + sampleOffset[1], Sub * y + sampleOffset[2]>>

\* loops that also visit the column and the row at the upper bounds
LoopPixels_Inclusive(p, w, h) ==
    LET bb == getAABBForTriangle(TriangleOf(p), w, h)
        nx == Max(0, bb.maxx - bb.minx + 1)
        ny == Max(0, bb.maxy - bb.miny + 1)
    IN  [k \in 1..(nx * ny) |->
            <<bb.minx + ((k - 1) \div ny), bb.miny + ((k - 1) % ny)>>]

\* the pixels the two nested loops of generateFragments visit, in loop
\* order (x outer, y inner)
LoopPixels(p, w, h) ==
    LET bb == getAABBForTriangle(TriangleOf(p), w, h)
        nx == Max(0, bb.maxx - bb.minx)
        ny == Max(0, bb.maxy - bb.miny)
    IN  [k \in 1..(nx * ny) |->
            <<bb.minx + ((k - 1) \div ny), bb.miny + ((k - 1) % ny)>>]

\* a loop body without the coverage test
Covers_Always(p, px, sampleOffset) == TRUE

\* the coverage test of generateFragments at pixel px
Covers(p, px, sampleOffset) ==
    isBarycentricCoordInBounds(
        BaryNum(TriangleOf(p), SamplePoint(px[1], px[2], sampleOffset)))

\* the loop pixels that pass the coverage test, in loop order
CoveredPixels(p, w, h, sampleOffset) ==
    SelectSeq(LoopPixels(p, w, h), LAMBDA px : Covers(p, px, sampleOffset))

\* ------------------------------------------------------------ depth

\* depth * INT_MAX of generateFragments for depth = n / d (n, d >= 0), the
\* float product: i is what (int)(depth * INT_MAX) gives (CUDA's conversion
\* saturates), exact tells whether the float has no fractional part, that
\* is whether it equals its own conversion back from int.  INT_MAX becomes
\* the float 2^31, so depth 1.0 gives exactly 2^31, and a float below 2^23
\* (depth < 1/256) can carry a fraction.  n = 0 is the zero-area triangle,
\* whose barycentric coordinates and depth are NaN: NaN converts to 0 and
\* compares unequal to everything.
DepthTimesIntMax(n, d) ==
    IF n = 0
    THEN [i |-> 0, exact |-> FALSE]
    ELSE IF n >= d
    THEN [i |-> INT_MAX, exact |-> (n = d)]
    ELSE LET T == 1073741824
             q == T \div d
             r == T % d
         IN  [i |-> q * (2 * n) + ((r * (2 * n)) \div d),
              exact |-> (256 * n >= d) \/ ((r * (2 * n)) % d = 0)]

\* 1.0f / getZAtCoordinate(barycentricCoord, triangle) as the fraction
\* n / d: getZAtCoordinate interpolates the reciprocal depths rz
PointDepth(p, bc) ==
    [n |-> Abs(bc.den),
     d |-> Abs(bc.a * p.v[1].rz + bc.b * p.v[2].rz + bc.g * p.v[3].rz)]

\* the float depth * INT_MAX of primitive p at pixel px
DepthProduct(p, px, sampleOffset) ==
    LET bc == BaryNum(TriangleOf(p), SamplePoint(px[1], px[2], sampleOffset))
        dp == PointDepth(p, bc)
    IN  DepthTimesIntMax(dp.n, dp.d)

\* (int)(depth * INT_MAX), the value handed to atomicMin
EncodedDepth(p, px, sampleOffset) == DepthProduct(p, px, sampleOffset).i

\* depth * INT_MAX == depthBuffer[fragIndex] (the int is converted to float)
DepthCheck(p, px, sampleOffset, stored) ==
    LET f == DepthProduct(p, px, sampleOffset)
    IN  f.exact /\ f.i = stored

\* ------------------------------------------------------------ fragments

\* a quotient rounded away from zero, so that a non-zero float never
\* becomes the fixed-point zero
RoundOut(num, den) ==
    LET s == IF (num >= 0) = (den >= 0) THEN 1 ELSE -1
    IN  s * CeilDiv(Abs(num), Abs(den))

\* interpolateBarycentric on the three vertex normals
interpolateBarycentric(n0, n1, n2, bc) ==
    [c \in 1..3 |-> RoundOut(bc.a * n0[c] + bc.b * n1[c] + bc.g * n2[c], bc.den)]

\* an interpolation of the stored vertexUV that leaves out the multiplication
\* by pointDepth
interpolatePerspective_NoDepth(p, bc, dp) ==
    [c \in 1..2 |->
        IF bc.den = 0 THEN 0
        ELSE TruncDiv(Abs(bc.a * p.v[1].vertexUV[c] + bc.b * p.v[2].vertexUV[c]
                          + bc.g * p.v[3].vertexUV[c]), Abs(bc.den))]

\* interpolatePerspective: pointDepth * (sum of coords * vertexUV)
interpolatePerspective(p, bc, dp) ==
    [c \in 1..2 |->
        IF dp.d = 0 THEN 0
        ELSE TruncDiv(Abs(bc.a * p.v[1].vertexUV[c] + bc.b * p.v[2].vertexUV[c]
                          + bc.g * p.v[3].vertexUV[c]), dp.d)]

NoFragment == [eyeNormal |-> <<0, 0, 0>>, UV |-> <<0, 0>>, diffuseTexture |-> 0]

\* the Fragment f that generateFragments builds for primitive p at pixel px
FragmentOf(p, px, sampleOffset) ==
    LET bc == BaryNum(TriangleOf(p), SamplePoint(px[1], px[2], sampleOffset))
        dp == PointDepth(p, bc)
    IN  [eyeNormal |-> interpolateBarycentric(p.v[1].vertexNormal,
                           p.v[2].vertexNormal, p.v[3].vertexNormal, bc),
         UV |-> IF PERSP_CORRECT
                THEN interpolatePerspective(p, bc, dp)
                ELSE [c \in 1..2 |->
                        RoundOut(bc.a * p.v[1].vertexUV[c] + bc.b * p.v[2].vertexUV[c]
                                 + bc.g * p.v[3].vertexUV[c], bc.den)],
         diffuseTexture |-> p.v[1].diffuseTexture]

\* ------------------------------------------------------------ shading

\* the Texture Store: raw byte triples with their dimensions; a texture
\* reference is an index into it, 0 is NULL
Textures ==
    << [texWidth |-> 2, texHeight |-> 2,
        data |-> << <<255, 0, 0>>, <<0, 255, 0>>, <<0, 0, 255>>, <<255, 255, 255>> >>] >>

\* colorAtPoint: inverse255 * the three bytes of texel index (a read
\* outside the texture is modelled as black)
colorAtPoint(t, index) ==
    IF index >= 0 /\ index < Len(Textures[t].data)
    THEN [c \in 1..3 |-> (Textures[t].data[index + 1][c] * CUnit) \div 255]
    ELSE <<0, 0, 0>>

\* Index1D of sample: uIndex + texWidth * vIndex, the two indices being the
\* int conversions of uv * size
TexelIndex(uv, texWidth, texHeight) ==
    TruncDiv(uv[1] * texWidth, UVUnit) + texWidth * TruncDiv(uv[2] * texHeight, UVUnit)

\* sample: nearest texel
sample(uv, t) ==
    colorAtPoint(t, TexelIndex(uv, Textures[t].texWidth, Textures[t].texHeight))

\* the four texel indices sampleBilinear reads for a texWidth x texHeight
\* texture, in the order of its terms
BilinearTexelIndices(uv, tw, th) ==
    LET uIndex == TruncDiv(uv[1] * tw, UVUnit)
        vIndex == TruncDiv(uv[2] * th, UVUnit)
        Index1D == uIndex + tw * vIndex
    IN  << Index1D,
           IF uIndex + 1 < tw THEN Index1D + 1 ELSE Index1D,
           IF vIndex + 1 < th THEN Index1D + tw ELSE Index1D,
           IF uIndex + 1 < tw /\ vIndex + 1 < th THEN Index1D + tw + 1 ELSE Index1D >>

\* the four texel indices sampleBilinear reads from texture t
BilinearIndices(uv, t) ==
    BilinearTexelIndices(uv, Textures[t].texWidth, Textures[t].texHeight)

\* sampleBilinear: four reads weighted by the fractional parts
sampleBilinear(uv, t) ==
    LET tw == Textures[t].texWidth
        th == Textures[t].texHeight
        uF == uv[1] * tw - TruncDiv(uv[1] * tw, UVUnit) * UVUnit
        vF == uv[2] * th - TruncDiv(uv[2] * th, UVUnit) * UVUnit
        ix == BilinearIndices(uv, t)
    IN  [c \in 1..3 |->
            ( (UVUnit - uF) * (UVUnit - vF) * colorAtPoint(t, ix[1])[c]
            + uF * (UVUnit - vF) * colorAtPoint(t, ix[2])[c]
            + (UVUnit - uF) * vF * colorAtPoint(t, ix[3])[c]
            + uF * vF * colorAtPoint(t, ix[4])[c] ) \div (UVUnit * UVUnit)]

\* the per-sample colour of render for a non-background fragment:
\* clamp(color * max(dot(eyeNormal, (1,1,1)), 0.4), 0, 1)
Diffuse(f) ==
    LET color == IF f.diffuseTexture = 0 THEN <<CUnit, CUnit, CUnit>>
                 ELSE IF BILINEAR THEN sampleBilinear(f.UV, f.diffuseTexture)
                 ELSE sample(f.UV, f.diffuseTexture)
        lightValue == Max(f.eyeNormal[1] + f.eyeNormal[2] + f.eyeNormal[3],
                          (4 * NUnit) \div 10)
    IN  [c \in 1..3 |-> Max(0, Min(CUnit, TruncDiv(color[c] * lightValue, NUnit)))]

\* SAMPLE_WEIGHT * diffuse
Weighted(col) == [c \in 1..3 |-> col[c] \div (SAMPLES * SAMPLES)]

\* the framebuffer value render leaves at a pixel holding old, for fragment f
RenderPixel(f, old) ==
    IF f.eyeNormal = <<0, 0, 0>>
    THEN <<0, 0, 0>>
    ELSE [c \in 1..3 |-> old[c] + Weighted(Diffuse(f))[c]]

\* what a pass owes a pixel's accumulated sum: the weighted colour of its
\* fragment, nothing for a background fragment
PassSum(f, old) ==
    IF f.eyeNormal = <<0, 0, 0>> THEN old
    ELSE [c \in 1..3 |-> old[c] + Weighted(Diffuse(f))[c]]

\* a conversion that writes an opaque alpha
PboPixel_Opaque(col) ==
    [c \in 1..4 |->
        IF c = 4 THEN 255 ELSE (Max(0, Min(CUnit, col[c])) * 255) \div CUnit]

\* sendImageToPBO: clamp to [0,1], scale by 255, alpha 0; <<x, y, z, w>>
PboPixel(col) ==
    [c \in 1..4 |->
        IF c = 4 THEN 0 ELSE (Max(0, Min(CUnit, col[c])) * 255) \div CUnit]

\* ------------------------------------------------------------ inputs

\* The Geometry Store: the mesh primitives a scene can be made of, as the
\* loader's accessors describe them.  position is <<x, y, rz>> (NDC x, y in
\* quarters, depth by its reciprocal), normal is a unit axis vector in
\* 1/NUnit, texcoord0 is in 1/UVUnit, material is a texture reference.
\* On the 2 x 2 image a position p is the screen point 4 - p (in 1/Sub
\* pixel) seen from the front and 4 + p seen from behind.
Up == <<0, 0, NUnit>>
Down == <<0, 0, -NUnit>>
Left == <<-NUnit, 0, 0>>
CornerUV == << <<0, 0>>, <<UVUnit, 0>>, <<0, UVUnit>> >>

\* a triangle reaching past the image on two sides, depth 1/2, facing the
\* camera: from the front it covers pixel (0,0) at every sample offset
MeshFar ==
    [mode |-> "TRIANGLES", indices |-> <<0, 1, 2>>,
     position |-> << <<8, 8, 2>>, <<-4, 8, 2>>, <<8, -4, 2>> >>,
     normal |-> <<Up, Up, Up>>, texcoord0 |-> CornerUV, material |-> 0]
\* a quarter pixel wide in the image corner, depth 1/4, facing sideways:
\* from the front it covers pixel (0,0) at sample offset (0,0) only
MeshNear ==
    [mode |-> "TRIANGLES", indices |-> <<0, 1, 2>>,
     position |-> << <<4, 4, 4>>, <<3, 4, 4>>, <<4, 3, 4>> >>,
     normal |-> <<Left, Left, Left>>, texcoord0 |-> CornerUV, material |-> 0]
\* the same corner triangle, depth 1/8, its vertex normals disagree
MeshMixed ==
    [mode |-> "TRIANGLES", indices |-> <<0, 1, 2>>,
     position |-> << <<4, 4, 8>>, <<3, 4, 8>>, <<4, 3, 8>> >>,
     normal |-> <<Up, Up, Down>>, texcoord0 |-> CornerUV, material |-> 0]
\* a line list of one segment
MeshLine ==
    [mode |-> "LINE", indices |-> <<0, 1>>,
     position |-> << <<-4, 8, 2>>, <<8, -4, 2>> >>,
     normal |-> <<Up, Up>>,
     texcoord0 |-> << <<0, 0>>, <<UVUnit, 0>> >>, material |-> 0]
\* a triangle whose last index names a vertex the mesh does not have
MeshBadIndex ==
    [mode |-> "TRIANGLES", indices |-> <<0, 1, 3>>,
     position |-> << <<8, 8, 2>>, <<-4, 8, 2>>, <<8, -4, 2>> >>,
     normal |-> <<Up, Up, Up>>, texcoord0 |-> CornerUV, material |-> 0]

Catalogue == {MeshFar, MeshNear, MeshMixed, MeshLine, MeshBadIndex}

\* the scenes: 1..MaxMeshPrims mesh primitives, in the map's iteration order
Scenes == UNION {[1..n -> Catalogue] : n \in 1..MaxMeshPrims}

\* image sizes rasterizeInit is called with
Dims == {<<2, 2>>}

\* per-frame inputs of rasterize: MVP is diag(MVP, 1, 1, 1) and MV_normal
\* is diag(1, 1, MV_normal): the view from the front and from behind
FrameInputs == {[MVP |-> 1, MV_normal |-> 1], [MVP |-> -1, MV_normal |-> -1]}

\* what freshly allocated device memory can hold
GarbageVertex ==
    [vertexPerspPos |-> <<0, 0>>, rz |-> 0, vertexNormal |-> <<0, 0, 0>>,
     vertexUV |-> <<0, 0>>, diffuseTexture |-> 0]
GarbagePrimitives ==
    {[v |-> <<GarbageVertex, GarbageVertex, GarbageVertex>>, cull |-> b] : b \in BOOLEAN}

TriangleModes == {"TRIANGLES", "TRIANGLE_STRIP", "TRIANGLE_FAN"}

\* the switch on primitive.mode of rasterizeSetBuffers
PrimitiveTypeOf(mode) ==
    CASE mode \in TriangleModes -> Triangle
      [] mode \in {"LINE", "LINE_LOOP"} -> Line
      [] mode = "POINTS" -> Point
NumPrimitivesOf(mode, numIndices) ==
    CASE mode = "TRIANGLES" -> numIndices \div 3
      [] mode \in {"TRIANGLE_STRIP", "TRIANGLE_FAN"} -> numIndices - 2
      [] mode = "LINE" -> numIndices \div 2
      [] mode = "LINE_LOOP" -> numIndices + 1
      [] mode = "POINTS" -> numIndices

\* the PrimitiveDevBufPointers pushed for one mesh primitive
DevBufPointers(mp) ==
    [primitiveMode |-> mp.mode,
     numPrimitives |-> NumPrimitivesOf(mp.mode, Len(mp.indices)),
     numIndices |-> Len(mp.indices),
     numVertices |-> Len(mp.position),
     primitiveType |-> PrimitiveTypeOf(mp.mode),
     dev_indices |-> mp.indices,
     dev_position |-> mp.position,
     dev_normal |-> mp.normal,
     dev_texcoord0 |-> mp.texcoord0,
     dev_diffuseTex |-> mp.material]

RECURSIVE SumPrims(_)
SumPrims(ps) ==
    IF ps = <<>> THEN 0 ELSE ps[1].numPrimitives + SumPrims(Tail(ps))

\* glm::normalize of an axis vector
Normalize(n) ==
    [c \in 1..3 |-> IF n[c] > 0 THEN NUnit ELSE IF n[c] < 0 THEN -NUnit ELSE 0]

\* the VertexOut _vertexTransformAndAssembly writes for vertex vid
VertexOutOf(prim, vid, in, w, h) ==
    LET pos == prim.dev_position[vid + 1]
        n == prim.dev_normal[vid + 1]
    IN  [vertexPerspPos |-> <<((4 - in.MVP * pos[1]) * w * Sub) \div 8,
                              ((4 - pos[2]) * h * Sub) \div 8>>,
         rz |-> pos[3],
         vertexNormal |-> Normalize(<<n[1], n[2], in.MV_normal * n[3]>>),
         vertexUV |-> IF PERSP_CORRECT
                      THEN [c \in 1..2 |-> pos[3] * prim.dev_texcoord0[vid + 1][c]]
                      ELSE prim.dev_texcoord0[vid + 1],
         diffuseTexture |-> prim.dev_diffuseTex]

\* ------------------------------------------------------------ state

VARIABLES
    width, height,          \* static int width, height
    mesh2PrimitivesMap,     \* the PrimitiveDevBufPointers, in iteration order
    totalNumPrimitives,
    dev_verticesOut,        \* per mesh primitive, its VertexOut array
    dev_primitives,         \* the Primitive array (<<>> is NULL)
    dev_fragmentBuffer, dev_framebuffer, dev_depth,
    pbo,                    \* the caller's presentation buffer
    curPrimitiveBeginId,
    frontPrims,
    pc,                     \* where the host is
    it,                     \* rasterize's iterator over the mesh primitives
    sampleIdx,              \* the pass: i = sampleIdx \div SAMPLES, j = sampleIdx % SAMPLES
    frameIn,                \* MVP, MV_normal of the frame being rendered
    kernelArgs,             \* by-value arguments of the launched kernels
    pending,                \* the workers launched and not yet finished
    rw,                     \* generateFragments: each worker's loop position
    finished,               \* history: the workers finished in this frame
    fragWriter,             \* history: the worker that wrote each Fragment
    prev,                   \* history: inputs and output of the frame before
    accSum,                 \* history: per pixel, the sum of the passes' contributions
    flags                   \* history: out-of-range accesses and reported errors

vars == <<width, height, mesh2PrimitivesMap, totalNumPrimitives, dev_verticesOut,
          dev_primitives, dev_fragmentBuffer, dev_framebuffer, dev_depth, pbo,
          curPrimitiveBeginId, frontPrims, pc, it, sampleIdx, frameIn, kernelArgs,
          pending, rw, finished, fragWriter, prev, accSum, flags>>

loadVars == <<mesh2PrimitivesMap, totalNumPrimitives>>
imageVars == <<width, height>>
bufVars == <<dev_fragmentBuffer, dev_framebuffer, dev_depth>>

Pixels == 0..(width * height - 1)

\* for (i...) for (j...) sampleOffset = (i * SAMPLE_JITTER, j * SAMPLE_JITTER)
SampleOffset(k) ==
    <<(k \div SAMPLES) * (Sub \div SAMPLES), (k % SAMPLES) * (Sub \div SAMPLES)>>

NoFlags == [oobVertexRead |-> FALSE, oobPrimitiveWrite |-> FALSE,
            oobPixelAccess |-> FALSE, oobTexelRead |-> FALSE, error |-> FALSE,
            lastNegZ |-> {},    \* primitives whose latest stored vertex has normal z < 0
            freedMeshes |-> {}, \* mesh primitives whose device buffers have been freed
            doubleFree |-> FALSE]

Init ==
    /\ width = 0 /\ height = 0
    /\ mesh2PrimitivesMap = <<>>
    /\ totalNumPrimitives = 0
    /\ dev_verticesOut = <<>>
    /\ dev_primitives = <<>>
    /\ dev_fragmentBuffer = <<>> /\ dev_framebuffer = <<>> /\ dev_depth = <<>>
    /\ pbo = <<>>
    /\ curPrimitiveBeginId = 0
    /\ frontPrims = 0
    /\ pc = "new"
    /\ it = 1
    /\ sampleIdx = 0
    /\ frameIn = [MVP |-> 1, MV_normal |-> 1]
    /\ kernelArgs = [beginId |-> <<>>, sampleOffset |-> <<0, 0>>, numPrimitives |-> 0]
    /\ pending = {}
    /\ rw = <<>>
    /\ finished = {}
    /\ fragWriter = <<>>
    /\ prev = [valid |-> FALSE]
    /\ accSum = <<>>
    /\ flags = NoFlags

\* ------------------------------------------------------------ load

\* the device allocation of rasterizeInit that fails, if any
AllocFailures == {"none", "dev_fragmentBuffer", "dev_framebuffer", "dev_depth"}

\* an error that only the last runtime call of a function can leave
ErrorLatched_LastOnly(outcomes) == ~outcomes[Len(outcomes)]

\* the runtime calls of a function whose results are ignored, in order
\* (TRUE: the call succeeded): a failed call leaves its error behind until
\* the next checkCUDAError reads it
ErrorLatched(outcomes) == \E k \in 1..Len(outcomes) : ~outcomes[k]

\* checkCUDAError(msg) of util/checkCUDAError.h: a pending error is
\* reported and the run is aborted; otherwise the host goes on
checkCUDAError(err, next) == IF err THEN "aborted" ELSE next

\* rasterizeInit(w, h): the three per-pixel buffers are allocated; the
\* fragment buffer and the framebuffer are zeroed, the depth buffer is not;
\* a buffer whose cudaMalloc failed stays NULL (<<>>)
rasterizeInit(w, h) ==
    /\ pc = "new"
    /\ width' = w /\ height' = h
    /\ \E f \in AllocFailures :
          LET err == ErrorLatched(<<f # "dev_fragmentBuffer", f # "dev_framebuffer",
                                    f # "dev_depth">>)
          IN  /\ dev_fragmentBuffer' = IF f = "dev_fragmentBuffer" THEN <<>>
                                       ELSE [i \in 0..(w * h - 1) |-> NoFragment]
              /\ dev_framebuffer' = IF f = "dev_framebuffer" THEN <<>>
                                    ELSE [i \in 0..(w * h - 1) |-> <<0, 0, 0>>]
              /\ \E d \in {0, INT_MAX} :
                    dev_depth' = IF f = "dev_depth" THEN <<>>
                                 ELSE [i \in 0..(w * h - 1) |-> d]
              /\ pc' = checkCUDAError(err, "inited")
              /\ flags' = [flags EXCEPT !.error = @ \/ err]
    /\ pbo' = [i \in 0..(w * h - 1) |-> <<0, 0, 0, 0>>]
    /\ fragWriter' = [i \in 0..(w * h - 1) |-> -1]
    /\ UNCHANGED <<loadVars, dev_verticesOut, dev_primitives, curPrimitiveBeginId,
                   frontPrims, it, sampleIdx, frameIn, kernelArgs, pending, rw,
                   finished, prev, accSum>>

\* the mesh primitives rasterizeSetBuffers gets through before it returns:
\* all of them, or those before the first one without indices
RECURSIVE Loaded(_)
Loaded(scene) ==
    IF scene = <<>> \/ scene[1].indices = <<>> THEN <<>>
    ELSE <<DevBufPointers(scene[1])>> \o Loaded(Tail(scene))

\* the body of rasterizeSetBuffers(scene): totalNumPrimitives starts again
\* from 0, the mesh primitives are pushed onto mesh2PrimitivesMap (which is
\* never cleared), and dev_primitives is allocated for totalNumPrimitives
\* unless the function has returned early
SetBuffers(scene) ==
    /\ LET new == Loaded([k \in 1..Len(scene) |-> scene[k]])
           early == Len(new) < Len(scene)
       IN  /\ mesh2PrimitivesMap' = mesh2PrimitivesMap \o new
           /\ totalNumPrimitives' = SumPrims(new)
           /\ dev_verticesOut' = dev_verticesOut \o
                 [k \in 1..Len(new) |-> [v \in 1..new[k].numVertices |-> GarbageVertex]]
           /\ IF early
              THEN /\ dev_primitives' = dev_primitives
                   /\ pc' = "idle"
                   /\ UNCHANGED flags
              ELSE \E ok \in BOOLEAN :
                     /\ IF ok
                        THEN \E g \in [1..SumPrims(new) -> GarbagePrimitives] :
                                dev_primitives' = g
                        ELSE dev_primitives' = <<>>
                     /\ pc' = checkCUDAError(ErrorLatched(<<ok>>), "idle")
                     /\ flags' = [flags EXCEPT !.error = @ \/ ErrorLatched(<<ok>>)]
    /\ UNCHANGED <<imageVars, bufVars, pbo, curPrimitiveBeginId, frontPrims, it,
                   sampleIdx, frameIn, kernelArgs, pending, rw, finished, fragWriter,
                   prev, accSum>>

\* rasterizeSetBuffers(scene), called once after rasterizeInit
rasterizeSetBuffers(scene) ==
    /\ pc = "inited"
    /\ SetBuffers(scene)

\* ------------------------------------------------------------ rasterize

\* launches that do not wait for the work issued before them
StreamIdle_NoOrder == TRUE

\* Every kernel, cudaMemset and thrust call of rasterize is issued on the
\* default stream: it starts once all work issued before it has finished.
StreamIdle == pending = {}

\* what reading past the end of a VertexOut array can return
StrayVertices ==
    {GarbageVertex, [GarbageVertex EXCEPT !.vertexNormal = Down]}

\* rasterize(pbo, MVP, MV, MV_normal) is entered
BeginFrame(in) ==
    /\ pc = "idle"
    /\ frameIn' = in
    /\ prev' = IF finished = {} THEN [valid |-> FALSE]
               ELSE [valid |-> TRUE, in |-> frameIn, pbo |-> pbo]
    /\ curPrimitiveBeginId' = 0
    /\ it' = 1
    /\ kernelArgs' = [kernelArgs EXCEPT !.beginId = <<>>]
    /\ finished' = {}
    /\ pc' = "loop"
    /\ UNCHANGED accSum
    /\ UNCHANGED <<imageVars, loadVars, dev_verticesOut, dev_primitives, bufVars, pbo,
                   frontPrims, sampleIdx, pending, rw, fragWriter, flags>>

\* _vertexTransformAndAssembly <<< >>> for the mesh primitive at it
LaunchVertexTransform ==
    /\ pc = "loop" /\ it <= Len(mesh2PrimitivesMap)
    /\ StreamIdle
    /\ pending' = pending \cup
          {<<"vertex", it, vid>> : vid \in 0..(mesh2PrimitivesMap[it].numVertices - 1)}
    /\ pc' = "sync"
    /\ UNCHANGED <<imageVars, loadVars, dev_verticesOut, dev_primitives, bufVars, pbo,
                   curPrimitiveBeginId, frontPrims, it, sampleIdx, frameIn, kernelArgs,
                   rw, finished, fragWriter, prev, accSum, flags>>

\* a vertex thread that stores the transformed normal back into dev_normal
InputsAfterVertex_InPlace(m, vid) ==
    [mesh2PrimitivesMap EXCEPT ![m].dev_normal[vid + 1] =
        VertexOutOf(mesh2PrimitivesMap[m], vid, frameIn, width, height).vertexNormal]

\* the input arrays of the mesh primitives after thread vid of
\* _vertexTransformAndAssembly: it reads dev_position, dev_normal and
\* dev_texcoord0 and assigns to dev_verticesOut[vid] only
InputsAfterVertex(m, vid) == mesh2PrimitivesMap

\* one thread of _vertexTransformAndAssembly
VertexWorker(m, vid) ==
    /\ <<"vertex", m, vid>> \in pending
    /\ dev_verticesOut' = [dev_verticesOut EXCEPT
          ![m][vid + 1] = VertexOutOf(mesh2PrimitivesMap[m], vid, frameIn, width, height)]
    /\ mesh2PrimitivesMap' = InputsAfterVertex(m, vid)
    /\ pending' = pending \ {<<"vertex", m, vid>>}
    /\ finished' = finished \cup {<<"vertex", m, vid>>}
    /\ UNCHANGED <<imageVars, totalNumPrimitives, dev_primitives, bufVars, pbo,
                   curPrimitiveBeginId, frontPrims, pc, it, sampleIdx, frameIn,
                   kernelArgs, rw, fragWriter, prev, accSum, flags>>

\* cudaDeviceSynchronize(); _primitiveAssembly <<< >>>;
\* curPrimitiveBeginId += p->numPrimitives; ++p
LaunchAssembly ==
    /\ pc = "sync"
    /\ pending = {}
    /\ pending' = {<<"assembly", it, iid>> : iid \in 0..(mesh2PrimitivesMap[it].numIndices - 1)}
    /\ kernelArgs' = [kernelArgs EXCEPT !.beginId = Append(@, curPrimitiveBeginId)]
    /\ curPrimitiveBeginId' = curPrimitiveBeginId + mesh2PrimitivesMap[it].numPrimitives
    /\ it' = it + 1
    /\ pc' = "loop"
    /\ UNCHANGED <<imageVars, loadVars, dev_verticesOut, dev_primitives, bufVars, pbo,
                   frontPrims, sampleIdx, frameIn, rw, finished, fragWriter, prev, accSum, flags>>

\* a primitive id that leaves out the offset of the mesh primitive
PrimitiveId_NoOffset(iid, primitiveType, beginId) == iid \div primitiveType

\* pid = iid / (int)primitive.primitiveType + curPrimitiveBeginId
PrimitiveId(iid, primitiveType, beginId) == (iid \div primitiveType) + beginId

\* a flag test that tags the primitives facing the eye
CullTest_Front(v) == v.vertexNormal[3] >= 0

\* v.vertexNormal[2] < 0 of _primitiveAssembly
CullTest(v) == v.vertexNormal[3] < 0

\* one thread of _primitiveAssembly, its first store:
\* dev_primitives[pid].v[iid % primitiveType] = v
AssemblyWorker(m, iid) ==
    /\ <<"assembly", m, iid>> \in pending
    /\ LET prim == mesh2PrimitivesMap[m]
           pid == PrimitiveId(iid, prim.primitiveType, kernelArgs.beginId[m])
           slot == iid % prim.primitiveType
           vi == prim.dev_indices[iid + 1]
           inV == vi >= 0 /\ vi < prim.numVertices
           inP == pid >= 0 /\ pid < Len(dev_primitives)
       IN  \E v \in (IF inV THEN {dev_verticesOut[m][vi + 1]} ELSE StrayVertices) :
             /\ dev_primitives' =
                   IF inP
                   THEN [dev_primitives EXCEPT ![pid + 1].v[slot + 1] = v]
                   ELSE dev_primitives
             /\ flags' = [flags EXCEPT !.oobVertexRead = @ \/ ~inV,
                                       !.oobPrimitiveWrite = @ \/ ~inP,
                                       !.lastNegZ = IF ~inP THEN @
                                                    ELSE IF v.vertexNormal[3] < 0 THEN @ \cup {pid}
                                                    ELSE @ \ {pid}]
    /\ pending' = (pending \ {<<"assembly", m, iid>>}) \cup {<<"assemblyFlag", m, iid>>}
    /\ UNCHANGED <<imageVars, loadVars, dev_verticesOut, bufVars, pbo,
                   curPrimitiveBeginId, frontPrims, pc, it, sampleIdx, frameIn,
                   kernelArgs, rw, finished, fragWriter, prev, accSum>>

\* the same thread, its second store: dev_primitives[pid].cull = ..., a
\* plain store to a location the other threads of the primitive store to
\* as well; v is the thread's register, the vertex it stored
AssemblyFlagStore(m, iid) ==
    /\ <<"assemblyFlag", m, iid>> \in pending
    /\ LET prim == mesh2PrimitivesMap[m]
           pid == PrimitiveId(iid, prim.primitiveType, kernelArgs.beginId[m])
           slot == iid % prim.primitiveType
           inP == pid >= 0 /\ pid < Len(dev_primitives)
       IN  dev_primitives' =
              IF inP
              THEN [dev_primitives EXCEPT
                      ![pid + 1].cull = CullTest(dev_primitives[pid + 1].v[slot + 1])]
              ELSE dev_primitives
    /\ pending' = pending \ {<<"assemblyFlag", m, iid>>}
    /\ finished' = finished \cup {<<"assembly", m, iid>>}
    /\ UNCHANGED <<imageVars, loadVars, dev_verticesOut, bufVars, pbo,
                   curPrimitiveBeginId, frontPrims, pc, it, sampleIdx, frameIn,
                   kernelArgs, rw, fragWriter, prev, accSum, flags>>

\* a compaction that keeps the flagged primitives instead
remove_if_Inverted(prims) == SelectSeq(prims, LAMBDA p : p.cull)

\* toCull and thrust::remove_if: the primitives that are kept, in order
remove_if(prims) == SelectSeq(prims, LAMBDA p : ~p.cull)

\* thrust::remove_if over [0, totalNumPrimitives), frontPrims, and the
\* cudaMemset of the framebuffer (the slots past the new end keep what
\* they held)
Cull ==
    /\ pc = "loop" /\ it > Len(mesh2PrimitivesMap)
    /\ StreamIdle
    /\ LET all == SubSeq(dev_primitives, 1, totalNumPrimitives)
           kept == IF BACKFACE_CULLING THEN remove_if(all) ELSE all
       IN  /\ dev_primitives' = kept \o SubSeq(dev_primitives, Len(kept) + 1, Len(dev_primitives))
           /\ frontPrims' = Len(kept)
    /\ dev_framebuffer' = [i \in Pixels |-> <<0, 0, 0>>]
    /\ accSum' = [i \in Pixels |-> <<0, 0, 0>>]
    /\ sampleIdx' = 0
    /\ finished' = finished \cup {<<"cull">>}
    /\ pc' = "pass"
    /\ flags' = [flags EXCEPT !.lastNegZ = {}]
    /\ UNCHANGED <<imageVars, loadVars, dev_verticesOut, dev_fragmentBuffer, dev_depth,
                   pbo, curPrimitiveBeginId, it, frameIn, kernelArgs, pending, rw,
                   fragWriter, prev>>

\* a plain store in place of the atomic minimum
atomicMin_Store(old, val) == val

\* atomicMin(address, val): the value left at the address
atomicMin(old, val) == Min(old, val)

\* a worker that stores at every pixel its loops visit
WorkerPixels_Uncovered(i) == LoopPixels(dev_primitives[i + 1], width, height)

\* the covered pixels worker i of the running generateFragments walks
WorkerPixels(i) ==
    CoveredPixels(dev_primitives[i + 1], width, height, kernelArgs.sampleOffset)

\* a fragIndex taken one row too far down
FragIndex_NextRow(px) == (px[2] + 1) * width + px[1]

\* int fragIndex = y * width + x
FragIndex(px) == px[2] * width + px[1]

\* if (fragIndex > width * height) return;
FragIndexRejected(fragIndex) == fragIndex > width * height

\* kernel <<< numBlocks, numThreadsPerBlock >>>: a launch with a grid of no
\* blocks is rejected (invalid configuration), no thread runs
LaunchValid(numBlocks) == numBlocks > 0

\* cudaMemset of the fragment buffer, initDepth <<< >>> and
\* generateFragments <<< numBlocksForPrims, 128 >>> of one sample pass,
\* with the checkCUDAError after the launch; a worker whose loops find no
\* covered pixel touches no shared memory and is finished at once
BeginPass ==
    /\ pc = "pass" /\ sampleIdx < SAMPLES * SAMPLES
    /\ StreamIdle
    /\ dev_fragmentBuffer' = [i \in Pixels |-> NoFragment]
    /\ dev_depth' = [i \in Pixels |-> INT_MAX]
    /\ fragWriter' = [i \in Pixels |-> -1]
    /\ IF LaunchValid(CeilDiv(frontPrims, 128))
       THEN /\ kernelArgs' = [kernelArgs EXCEPT !.sampleOffset = SampleOffset(sampleIdx),
                                                !.numPrimitives = frontPrims]
            /\ LET busy == {i \in 0..(frontPrims - 1) :
                              CoveredPixels(dev_primitives[i + 1], width, height,
                                            SampleOffset(sampleIdx)) # <<>>}
               IN  /\ rw' = [i \in 0..(frontPrims - 1) |->
                               [k |-> 1, ph |-> IF i \in busy THEN "min" ELSE "done"]]
                   /\ pending' = pending \cup {<<"raster", sampleIdx, i>> : i \in busy}
                   /\ finished' = finished \cup
                         {<<"raster", sampleIdx, i>> : i \in (0..(frontPrims - 1)) \ busy}
            /\ pc' = "raster"
            /\ UNCHANGED flags
       ELSE /\ pc' = checkCUDAError(ErrorLatched(<<FALSE>>), "raster")
            /\ flags' = [flags EXCEPT !.error = TRUE]
            /\ UNCHANGED <<kernelArgs, rw, pending, finished>>
    /\ UNCHANGED <<imageVars, loadVars, dev_verticesOut, dev_primitives, dev_framebuffer,
                   pbo, curPrimitiveBeginId, frontPrims, it, sampleIdx, frameIn, prev, accSum>>

\* the worker goes on to its next covered pixel, or returns
Advance(s, i) ==
    IF rw[i].k < Len(WorkerPixels(i))
    THEN /\ rw' = [rw EXCEPT ![i] = [k |-> rw[i].k + 1, ph |-> "min"]]
         /\ UNCHANGED <<pending, finished>>
    ELSE /\ rw' = [rw EXCEPT ![i].ph = "done"]
         /\ pending' = pending \ {<<"raster", s, i>>}
         /\ finished' = finished \cup {<<"raster", s, i>>}

\* generateFragments at a covered pixel: the fragIndex test and
\* atomicMin(&depthBuffer[fragIndex], (int)(depth * INT_MAX))
AtomicMinStep(s, i) ==
    /\ <<"raster", s, i>> \in pending
    /\ rw[i].ph = "min"
    /\ LET px == WorkerPixels(i)[rw[i].k]
           fragIndex == FragIndex(px)
           enc == EncodedDepth(dev_primitives[i + 1], px, kernelArgs.sampleOffset)
       IN  IF FragIndexRejected(fragIndex)
           THEN /\ rw' = [rw EXCEPT ![i].ph = "done"]
                /\ pending' = pending \ {<<"raster", s, i>>}
                /\ finished' = finished \cup {<<"raster", s, i>>}
                /\ UNCHANGED <<dev_depth, flags>>
           ELSE /\ dev_depth' = IF fragIndex \in Pixels
                                THEN [dev_depth EXCEPT ![fragIndex] = atomicMin(@, enc)]
                                ELSE dev_depth
                /\ flags' = [flags EXCEPT !.oobPixelAccess = @ \/ fragIndex \notin Pixels]
                /\ rw' = [rw EXCEPT ![i].ph = "check"]
                /\ UNCHANGED <<pending, finished>>
    /\ UNCHANGED <<imageVars, loadVars, dev_verticesOut, dev_primitives,
                   dev_fragmentBuffer, dev_framebuffer, pbo, curPrimitiveBeginId,
                   frontPrims, pc, it, sampleIdx, frameIn, kernelArgs, fragWriter, prev, accSum>>

\* if (depth * INT_MAX == depthBuffer[fragIndex]): the second, plain read
DepthCheckStep(s, i) ==
    /\ <<"raster", s, i>> \in pending
    /\ rw[i].ph = "check"
    /\ LET px == WorkerPixels(i)[rw[i].k]
           fragIndex == FragIndex(px)
           stored == IF fragIndex \in Pixels THEN dev_depth[fragIndex] ELSE 0
       IN  IF DepthCheck(dev_primitives[i + 1], px, kernelArgs.sampleOffset, stored)
           THEN /\ rw' = [rw EXCEPT ![i].ph = "write"]
                /\ UNCHANGED <<pending, finished>>
           ELSE Advance(s, i)
    /\ UNCHANGED <<imageVars, loadVars, dev_verticesOut, dev_primitives, bufVars, pbo,
                   curPrimitiveBeginId, frontPrims, pc, it, sampleIdx, frameIn,
                   kernelArgs, fragWriter, prev, accSum, flags>>

\* fragmentBuffer[fragIndex] = f
FragmentWriteStep(s, i) ==
    /\ <<"raster", s, i>> \in pending
    /\ rw[i].ph = "write"
    /\ LET px == WorkerPixels(i)[rw[i].k]
           fragIndex == FragIndex(px)
       IN  /\ dev_fragmentBuffer' =
                 IF fragIndex \in Pixels
                 THEN [dev_fragmentBuffer EXCEPT ![fragIndex] =
                         FragmentOf(dev_primitives[i + 1], px, kernelArgs.sampleOffset)]
                 ELSE dev_fragmentBuffer
           /\ fragWriter' = IF fragIndex \in Pixels
                            THEN [fragWriter EXCEPT ![fragIndex] = i]
                            ELSE fragWriter
    /\ Advance(s, i)
    /\ UNCHANGED <<imageVars, loadVars, dev_verticesOut, dev_primitives, dev_depth,
                   dev_framebuffer, pbo, curPrimitiveBeginId, frontPrims, pc, it,
                   sampleIdx, frameIn, kernelArgs, prev, accSum, flags>>

\* render <<< >>> of the pass, and the loop goes on to the next pass
LaunchRender ==
    /\ pc = "raster"
    /\ StreamIdle
    /\ pending' = pending \cup {<<"render", sampleIdx, index>> : index \in Pixels}
    /\ sampleIdx' = sampleIdx + 1
    /\ pc' = "pass"
    /\ UNCHANGED <<imageVars, loadVars, dev_verticesOut, dev_primitives, bufVars, pbo,
                   curPrimitiveBeginId, frontPrims, it, frameIn, kernelArgs, rw,
                   finished, fragWriter, prev, accSum, flags>>

\* one thread of render
RenderWorker(s, index) ==
    /\ <<"render", s, index>> \in pending
    /\ dev_framebuffer' = [dev_framebuffer EXCEPT
          ![index] = RenderPixel(dev_fragmentBuffer[index], @)]
    /\ accSum' = [accSum EXCEPT ![index] = PassSum(dev_fragmentBuffer[index], @)]
    /\ pending' = pending \ {<<"render", s, index>>}
    /\ finished' = finished \cup {<<"render", s, index>>}
    /\ UNCHANGED <<imageVars, loadVars, dev_verticesOut, dev_primitives,
                   dev_fragmentBuffer, dev_depth, pbo, curPrimitiveBeginId, frontPrims,
                   pc, it, sampleIdx, frameIn, kernelArgs, rw, fragWriter, prev, flags>>

\* sendImageToPBO <<< >>> after the last pass
LaunchPbo ==
    /\ pc = "pass" /\ sampleIdx >= SAMPLES * SAMPLES
    /\ StreamIdle
    /\ pending' = pending \cup {<<"pbo", index>> : index \in Pixels}
    /\ pc' = "present"
    /\ UNCHANGED <<imageVars, loadVars, dev_verticesOut, dev_primitives, bufVars, pbo,
                   curPrimitiveBeginId, frontPrims, it, sampleIdx, frameIn, kernelArgs,
                   rw, finished, fragWriter, prev, accSum, flags>>

\* one thread of sendImageToPBO
PboWorker(index) ==
    /\ <<"pbo", index>> \in pending
    /\ pbo' = [pbo EXCEPT ![index] = PboPixel(dev_framebuffer[index])]
    /\ pending' = pending \ {<<"pbo", index>>}
    /\ finished' = finished \cup {<<"pbo", index>>}
    /\ UNCHANGED <<imageVars, loadVars, dev_verticesOut, dev_primitives, bufVars,
                   curPrimitiveBeginId, frontPrims, pc, it, sampleIdx, frameIn,
                   kernelArgs, rw, fragWriter, prev, accSum, flags>>

\* the frame's last kernel has finished: the image is presented
FrameDone ==
    /\ pc = "present"
    /\ pending = {}
    /\ pc' = "idle"
    /\ UNCHANGED <<imageVars, loadVars, dev_verticesOut, dev_primitives, bufVars, pbo,
                   curPrimitiveBeginId, frontPrims, it, sampleIdx, frameIn, kernelArgs,
                   pending, rw, finished, fragWriter, prev, accSum, flags>>

\* the mesh primitives whose buffers rasterizeFree has passed to cudaFree:
\* all n entries of mesh2PrimitivesMap, which keeps the entries and their
\* pointers (only the four global pointers are set to NULL)
FreedAfterFree(n) == 1..n

\* rasterizeFree(): cudaFree of the six buffers of every mesh primitive in
\* mesh2PrimitivesMap, then of the four global buffers, which are set to
\* NULL; cudaFree of a pointer freed before returns an error, which the
\* final checkCUDAError reports
rasterizeFree ==
    /\ pc \in {"idle", "freed"}
    /\ pending = {}
    /\ LET again == flags.freedMeshes \cap (1..Len(mesh2PrimitivesMap)) # {}
       IN  /\ flags' = [flags EXCEPT
                          !.freedMeshes = FreedAfterFree(Len(mesh2PrimitivesMap)),
                          !.doubleFree = @ \/ again,
                          !.error = @ \/ ErrorLatched(<<~again>>)]
           /\ pc' = checkCUDAError(ErrorLatched(<<~again>>), "freed")
    /\ dev_primitives' = <<>>
    /\ dev_fragmentBuffer' = <<>>
    /\ dev_framebuffer' = <<>>
    /\ dev_depth' = <<>>
    /\ UNCHANGED <<imageVars, loadVars, dev_verticesOut, pbo, curPrimitiveBeginId,
                   frontPrims, it, sampleIdx, frameIn, kernelArgs, pending, rw,
                   finished, fragWriter, prev, accSum>>

\* the kernel launch the host is about to issue fails (no worker starts)
\* and the checkCUDAError that follows the launch finds the error
KernelLaunchFails ==
    /\ \/ pc = "loop" /\ it <= Len(mesh2PrimitivesMap) /\ StreamIdle
       \/ pc = "sync" /\ pending = {}
       \/ pc = "pass" /\ StreamIdle
       \/ pc = "raster" /\ StreamIdle
    /\ pc' = checkCUDAError(ErrorLatched(<<FALSE>>), pc)
    /\ flags' = [flags EXCEPT !.error = TRUE]
    /\ UNCHANGED <<imageVars, loadVars, dev_verticesOut, dev_primitives, bufVars, pbo,
                   curPrimitiveBeginId, frontPrims, it, sampleIdx, frameIn, kernelArgs,
                   pending, rw, finished, fragWriter, prev, accSum>>

\* ------------------------------------------------------------ specification

Next ==
    \/ \E d \in Dims : rasterizeInit(d[1], d[2])
    \/ \E scene \in Scenes : rasterizeSetBuffers(scene)
    \/ \E in \in FrameInputs : BeginFrame(in)
    \/ LaunchVertexTransform
    \/ \E w \in pending : w[1] = "vertex" /\ VertexWorker(w[2], w[3])
    \/ LaunchAssembly
    \/ \E w \in pending : w[1] = "assembly" /\ AssemblyWorker(w[2], w[3])
    \/ \E w \in pending : w[1] = "assemblyFlag" /\ AssemblyFlagStore(w[2], w[3])
    \/ Cull
    \/ BeginPass
    \/ \E w \in pending : w[1] = "raster" /\ AtomicMinStep(w[2], w[3])
    \/ \E w \in pending : w[1] = "raster" /\ DepthCheckStep(w[2], w[3])
    \/ \E w \in pending : w[1] = "raster" /\ FragmentWriteStep(w[2], w[3])
    \/ LaunchRender
    \/ \E w \in pending : w[1] = "render" /\ RenderWorker(w[2], w[3])
    \/ LaunchPbo
    \/ \E w \in pending : w[1] = "pbo" /\ PboWorker(w[2])
    \/ FrameDone
    \/ KernelLaunchFails
    \/ rasterizeFree

Spec == Init /\ [][Next]_vars

\* the steps of a frame once rasterize has been entered: the host's
\* launches and the workers of the launched kernels
FrameStep ==
    \/ LaunchVertexTransform
    \/ \E w \in pending : w[1] = "vertex" /\ VertexWorker(w[2], w[3])
    \/ LaunchAssembly
    \/ \E w \in pending : w[1] = "assembly" /\ AssemblyWorker(w[2], w[3])
    \/ \E w \in pending : w[1] = "assemblyFlag" /\ AssemblyFlagStore(w[2], w[3])
    \/ Cull
    \/ BeginPass
    \/ \E w \in pending : w[1] = "raster" /\ AtomicMinStep(w[2], w[3])
    \/ \E w \in pending : w[1] = "raster" /\ DepthCheckStep(w[2], w[3])
    \/ \E w \in pending : w[1] = "raster" /\ FragmentWriteStep(w[2], w[3])
    \/ LaunchRender
    \/ \E w \in pending : w[1] = "render" /\ RenderWorker(w[2], w[3])
    \/ LaunchPbo
    \/ \E w \in pending : w[1] = "pbo" /\ PboWorker(w[2])
    \/ FrameDone

\* the calls of a run in which the runtime refuses nothing it is not bound
\* to refuse
NextFair ==
    \/ \E d \in Dims : rasterizeInit(d[1], d[2])
    \/ \E scene \in Scenes : rasterizeSetBuffers(scene)
    \/ \E in \in FrameInputs : BeginFrame(in)
    \/ FrameStep
    \/ rasterizeFree

\* the host thread keeps running and the device runs every launched worker:
\* a frame step that stays possible is taken
SpecFair == Init /\ [][NextFair]_vars /\ WF_vars(FrameStep)

\* ------------------------------------------------- loading and assembly

\* mesh primitives of the other modes the loader's switch knows, and of
\* index counts the mode does not divide
\* a strip of two triangles over four vertices
MeshStrip ==
    [mode |-> "TRIANGLE_STRIP", indices |-> <<0, 1, 2, 3>>,
     position |-> << <<8, 8, 2>>, <<-4, 8, 2>>, <<8, -4, 2>>, <<-4, -4, 2>> >>,
     normal |-> <<Up, Up, Up, Up>>,
     texcoord0 |-> << <<0, 0>>, <<UVUnit, 0>>, <<0, UVUnit>>, <<UVUnit, UVUnit>> >>,
     material |-> 0]
\* a triangle list of four indices
MeshOdd ==
    [mode |-> "TRIANGLES", indices |-> <<0, 1, 2, 0>>,
     position |-> << <<8, 8, 2>>, <<-4, 8, 2>>, <<8, -4, 2>> >>,
     normal |-> <<Up, Up, Up>>, texcoord0 |-> CornerUV, material |-> 0]
\* a single point
MeshPoints ==
    [mode |-> "POINTS", indices |-> <<0>>,
     position |-> << <<8, 8, 2>> >>,
     normal |-> <<Up>>, texcoord0 |-> << <<0, 0>> >>, material |-> 0]
\* a mesh primitive without an index accessor
MeshNoIndices ==
    [mode |-> "TRIANGLES", indices |-> <<>>,
     position |-> << <<8, 8, 2>>, <<-4, 8, 2>>, <<8, -4, 2>> >>,
     normal |-> <<Up, Up, Up>>, texcoord0 |-> CornerUV, material |-> 0]

\* the scenes handed to rasterizeSetBuffers in the load runs
LoadScenes ==
    {<<MeshFar>>, <<MeshStrip>>, <<MeshOdd>>, <<MeshLine>>, <<MeshPoints>>,
     <<MeshFar, MeshNoIndices>>}

\* rasterizeSetBuffers(scene) called once more, between two frames
rasterizeSetBuffersAgain(scene) ==
    /\ pc = "idle"
    /\ Len(mesh2PrimitivesMap) < MaxMapEntries
    /\ SetBuffers(scene)

\* the calls of a run from start-up to the end of the assembly loop of
\* rasterize: the loads, then the frame up to the point where
\* thrust::remove_if is reached
NextLoad ==
    \/ \E d \in Dims : rasterizeInit(d[1], d[2])
    \/ \E scene \in LoadScenes : rasterizeSetBuffers(scene)
    \/ \E scene \in LoadScenes : rasterizeSetBuffersAgain(scene)
    \/ \E in \in FrameInputs : BeginFrame(in)
    \/ LaunchVertexTransform
    \/ \E w \in pending : w[1] = "vertex" /\ VertexWorker(w[2], w[3])
    \/ LaunchAssembly
    \/ \E w \in pending : w[1] = "assembly" /\ AssemblyWorker(w[2], w[3])
    \/ \E w \in pending : w[1] = "assemblyFlag" /\ AssemblyFlagStore(w[2], w[3])

SpecLoad == Init /\ [][NextLoad]_vars

\* ------------------------------------------------------------ one worker
\* A second specification: one generateFragments worker runs alone over one
\* primitive, pixel by pixel, on freshly reset buffers.

\* a transformed vertex at screen point pt (in 1/Sub pixel)
ScreenVertex(pt, rz, n, uv) ==
    [vertexPerspPos |-> pt, rz |-> rz, vertexNormal |-> n,
     vertexUV |-> IF PERSP_CORRECT THEN <<rz * uv[1], rz * uv[2]>> ELSE uv,
     diffuseTexture |-> 0]

\* a primitive from three screen points, reciprocal depths and UVs
ScreenPrimitive(pts, rzs, uvs) ==
    [v |-> [c \in 1..3 |-> ScreenVertex(pts[c], rzs[c], Up, uvs[c])], cull |-> FALSE]

\* the triangle with screen vertices (0,0), (10,0), (0,10)
TenTriangle == << <<0, 0>>, <<10 * Sub, 0>>, <<0, 10 * Sub>> >>

\* triangles given to the worker: counter-clockwise and clockwise, with
\* vertices off the pixel grid, partly and wholly off screen, of zero area
TestTriangles ==
    { TenTriangle,
      << <<0, 0>>, <<0, 10 * Sub>>, <<10 * Sub, 0>> >>,
      << <<1, 2>>, <<11, 3>>, <<5, 10>> >>,
      << <<-6, -6>>, <<14, 2>>, <<2, 14>> >>,
      << <<-9, -9>>, <<-1, -9>>, <<-9, -1>> >>,
      << <<0, 0>>, <<4, 4>>, <<8, 8>> >>,
      << <<0, 4>>, <<8, 4>>, <<20, 4>> >>,
      << <<4, 4>>, <<4, 4>>, <<4, 4>> >> }

\* reciprocal depths of the three vertices: uniform and not, and a far
\* triangle (depth 1/299, whose depth * INT_MAX is the float 7182219.5)
TestDepths == { <<2, 2, 2>>, <<1, 2, 4>>, <<299, 299, 299>> }

TestDims == { <<10, 10>>, <<3, 3>> }

TestPrimitives ==
    { ScreenPrimitive(t, z, CornerUV) : t \in TestTriangles, z \in TestDepths }

InitOneWorker ==
    /\ \E d \in TestDims :
          /\ width = d[1] /\ height = d[2]
          /\ dev_fragmentBuffer = [i \in 0..(d[1] * d[2] - 1) |-> NoFragment]
          /\ dev_framebuffer = [i \in 0..(d[1] * d[2] - 1) |-> <<0, 0, 0>>]
          /\ dev_depth = [i \in 0..(d[1] * d[2] - 1) |-> INT_MAX]
          /\ pbo = [i \in 0..(d[1] * d[2] - 1) |-> <<0, 0, 0, 0>>]
          /\ fragWriter = [i \in 0..(d[1] * d[2] - 1) |-> -1]
          /\ accSum = [i \in 0..(d[1] * d[2] - 1) |-> <<0, 0, 0>>]
    /\ mesh2PrimitivesMap = <<>>
    /\ totalNumPrimitives = 1
    /\ dev_verticesOut = <<>>
    /\ \E p \in TestPrimitives : dev_primitives = <<p>>
    /\ curPrimitiveBeginId = 0
    /\ frontPrims = 1
    /\ pc = "scan"
    /\ it = 1
    /\ \E k \in 0..(SAMPLES * SAMPLES - 1) :
          /\ sampleIdx = k
          /\ kernelArgs = [beginId |-> <<>>, sampleOffset |-> SampleOffset(k),
                           numPrimitives |-> 1]
    /\ frameIn = [MVP |-> 1, MV_normal |-> 1]
    /\ pending = {<<"raster", sampleIdx, 0>>}
    /\ rw = (0 :> [k |-> 1, ph |-> "scan"])
    /\ finished = {}
    /\ prev = [valid |-> FALSE]
    /\ flags = NoFlags

\* one iteration of the two nested loops of generateFragments, run without
\* any other worker: the coverage test, the fragIndex test, atomicMin, the
\* depth comparison and the Fragment write
ScanPixel ==
    /\ pc = "scan"
    /\ rw[0].k <= Len(LoopPixels(dev_primitives[1], width, height))
    /\ LET p == dev_primitives[1]
           px == LoopPixels(p, width, height)[rw[0].k]
           off == kernelArgs.sampleOffset
           fragIndex == FragIndex(px)
           inB == fragIndex \in Pixels
           newDepth == atomicMin(dev_depth[fragIndex], EncodedDepth(p, px, off))
       IN  IF ~Covers(p, px, off)
           THEN /\ rw' = [rw EXCEPT ![0].k = @ + 1]
                /\ UNCHANGED <<dev_depth, dev_fragmentBuffer, fragWriter, finished,
                               flags, pc, pending>>
           ELSE IF FragIndexRejected(fragIndex)
           THEN /\ pc' = "scanned"
                /\ pending' = {}
                /\ UNCHANGED <<dev_depth, dev_fragmentBuffer, fragWriter, finished,
                               flags, rw>>
           ELSE /\ rw' = [rw EXCEPT ![0].k = @ + 1]
                /\ finished' = finished \cup {<<"covered", px[1], px[2]>>}
                /\ flags' = [flags EXCEPT !.oobPixelAccess = @ \/ ~inB]
                /\ dev_depth' = IF inB THEN [dev_depth EXCEPT ![fragIndex] = newDepth]
                                ELSE dev_depth
                /\ IF inB /\ DepthCheck(p, px, off, newDepth)
                   THEN /\ dev_fragmentBuffer' =
                             [dev_fragmentBuffer EXCEPT ![fragIndex] = FragmentOf(p, px, off)]
                        /\ fragWriter' = [fragWriter EXCEPT ![fragIndex] = 0]
                   ELSE UNCHANGED <<dev_fragmentBuffer, fragWriter>>
                /\ UNCHANGED <<pc, pending>>
    /\ UNCHANGED <<imageVars, loadVars, dev_verticesOut, dev_primitives, dev_framebuffer,
                   pbo, curPrimitiveBeginId, frontPrims, it, sampleIdx, frameIn,
                   kernelArgs, prev, accSum>>

\* the loops are over: the worker returns
ScanReturn ==
    /\ pc = "scan"
    /\ rw[0].k > Len(LoopPixels(dev_primitives[1], width, height))
    /\ pc' = "scanned"
    /\ pending' = {}
    /\ UNCHANGED <<imageVars, loadVars, dev_verticesOut, dev_primitives, bufVars, pbo,
                   curPrimitiveBeginId, frontPrims, it, sampleIdx, frameIn, kernelArgs,
                   rw, finished, fragWriter, prev, accSum, flags>>

NextOneWorker == ScanPixel \/ ScanReturn

SpecOneWorker == InitOneWorker /\ [][NextOneWorker]_vars

\* ------------------------------------------------------------ properties

\* all generateFragments workers of the running pass have returned
RasterDone == pc = "raster" /\ pending = {}

PxOf(index) == <<index % width, index \div width>>

\* worker i of the running pass tests pixel index and finds it covered
CoversPx(i, index) ==
    \E k \in 1..Len(WorkerPixels(i)) : FragIndex(WorkerPixels(i)[k]) = index

\* the workers that write the depth entry of pixel index
Writers(index) == {i \in 0..(frontPrims - 1) : CoversPx(i, index)}

EncAt(i, index) ==
    EncodedDepth(dev_primitives[i + 1], PxOf(index), kernelArgs.sampleOffset)

\* two primitives have exactly the same encoded depth at the pixel
Tie(index) ==
    \E i, j \in Writers(index) : i # j /\ EncAt(i, index) = EncAt(j, index)

\* every mesh primitive is a triangle list whose indices name its vertices
SceneWellFormed ==
    \A m \in 1..Len(mesh2PrimitivesMap) :
        /\ mesh2PrimitivesMap[m].primitiveMode = "TRIANGLES"
        /\ mesh2PrimitivesMap[m].numIndices % 3 = 0
        /\ \A k \in 1..mesh2PrimitivesMap[m].numIndices :
              mesh2PrimitivesMap[m].dev_indices[k] \in 0..(mesh2PrimitivesMap[m].numVertices - 1)

\* the pass run by one worker after the other, in the given order: the
\* depth entry and the Fragment of pixel index at the end
RECURSIVE SeqAt(_, _)
SeqAt(order, index) ==
    IF order = <<>> THEN [depth |-> INT_MAX, frag |-> NoFragment]
    ELSE LET before == SeqAt(SubSeq(order, 1, Len(order) - 1), index)
             i == order[Len(order)]
             d == Min(before.depth, EncAt(i, index))
         IN  IF ~CoversPx(i, index) THEN before
             ELSE [depth |-> d,
                   frag |-> IF DepthCheck(dev_primitives[i + 1], PxOf(index),
                                          kernelArgs.sampleOffset, d)
                            THEN FragmentOf(dev_primitives[i + 1], PxOf(index),
                                            kernelArgs.sampleOffset)
                            ELSE before.frag]

\* the orders in which the surviving primitives can be submitted
Orders ==
    {o \in [1..frontPrims -> 0..(frontPrims - 1)] :
        \A a, b \in 1..frontPrims : a # b => o[a] # o[b]}

\* C1: at the end of a sample pass the DepthBuffer and the Fragment of
\* every pixel without a depth tie are what any one-after-the-other run of
\* the surviving primitives, in any order, leaves there: the result does
\* not depend on submission order or on the interleaving of the workers.
C1_OrderIndependent ==
    (RasterDone /\ SceneWellFormed) =>
        \A o \in Orders : \A index \in Pixels :
            ~Tie(index) =>
                /\ dev_depth[index] = SeqAt(o, index).depth
                /\ dev_fragmentBuffer[index] = SeqAt(o, index).frag

\* C2: at the end of a sample pass the Fragment of every written pixel
\* comes from a primitive whose encoded depth there is the final
\* DepthBuffer value: no occluded fragment is left to be shaded.
C2_NoOccludedFragment ==
    (RasterDone /\ SceneWellFormed) =>
        \A index \in Pixels :
            fragWriter[index] # -1 =>
                EncAt(fragWriter[index], index) = dev_depth[index]

\* the least encoded depth of the workers ws at pixel index, INT_MAX if none
RECURSIVE MinEnc(_, _)
MinEnc(ws, index) ==
    IF ws = {} THEN INT_MAX
    ELSE LET i == CHOOSE x \in ws : TRUE
             rest == MinEnc(ws \ {i}, index)
         IN  IF EncAt(i, index) < rest THEN EncAt(i, index) ELSE rest

\* C3: a pass starts with every DepthBuffer entry at INT_MAX, no step of
\* the pass increases an entry, and when the pass is over each entry is the
\* minimum of INT_MAX and the encoded depths of the workers that wrote it.
C3_DepthNeverIncreases ==
    /\ [][ /\ (pc # "raster" /\ pc' = "raster") =>
                \A index \in Pixels : dev_depth'[index] = INT_MAX
           /\ (pc = "raster" /\ pc' = "raster") =>
                \A index \in Pixels : dev_depth'[index] <= dev_depth[index] ]_vars
    /\ [](RasterDone => \A index \in Pixels :
                          dev_depth[index] = MinEnc(Writers(index), index))

\* a pass ended in which two primitives wrote one pixel, the nearer last
C3_Witness ==
    /\ RasterDone
    /\ \E index \in Pixels : \E i, j \in Writers(index) :
          /\ EncAt(i, index) < EncAt(j, index)
          /\ dev_depth[index] = EncAt(i, index)
          /\ fragWriter[index] = i

\* ---- stage order

\* the workers that have been started in the running frame
Launched == pending \cup finished

VertexWorkersOf(m) ==
    {<<"vertex", m, vid>> : vid \in 0..(mesh2PrimitivesMap[m].numVertices - 1)}
AssemblyWorkersOf(m) ==
    {<<"assembly", m, iid>> : iid \in 0..(mesh2PrimitivesMap[m].numIndices - 1)}
RasterWorkersOf(s) == {<<"raster", s, i>> : i \in 0..(frontPrims - 1)}
RenderWorkersOf(s) == {<<"render", s, index>> : index \in Pixels}
Meshes == 1..Len(mesh2PrimitivesMap)
Passes == 0..(SAMPLES * SAMPLES - 1)

\* Culler after every assembly worker, Rasterizer of a pass after the
\* Culler and after the Shader of the passes before it, Shader of a pass
\* after every Rasterizer worker of the pass, FrameCompositor after the
\* Shader of every pass
LaterStagesOrdered ==
    /\ <<"cull">> \in finished =>
          \A m \in Meshes : VertexWorkersOf(m) \cup AssemblyWorkersOf(m) \subseteq finished
    /\ \A w \in Launched :
          /\ w[1] = "raster" =>
                /\ <<"cull">> \in finished
                /\ \A s \in Passes : s < w[2] => RenderWorkersOf(s) \subseteq finished
          /\ w[1] = "render" => RasterWorkersOf(w[2]) \subseteq finished
          /\ w[1] = "pbo" => \A s \in Passes : RenderWorkersOf(s) \subseteq finished

\* C4 (as stated): no worker of a stage starts before every worker of the
\* stage before it has finished; for the PrimitiveAssembler that is every
\* VertexTransformer worker of the frame, of every mesh primitive.
C4_StageBarrier ==
    /\ LaterStagesOrdered
    /\ \A w \in Launched :
          w[1] = "assembly" => \A m \in Meshes : VertexWorkersOf(m) \subseteq finished

\* C4 (amended): an assembly worker of a mesh primitive starts only after
\* every vertex worker of that mesh primitive has finished (transform and
\* assembly alternate mesh primitive by mesh primitive), and every later
\* stage starts only after every worker of the stage before it has finished.
C4_StageBarrierPerMesh ==
    /\ LaterStagesOrdered
    /\ \A w \in Launched :
          w[1] = "assembly" => VertexWorkersOf(w[2]) \subseteq finished

\* a frame of a scene with two mesh primitives has reached sendImageToPBO
C4_Witness ==
    /\ Len(mesh2PrimitivesMap) = 2
    /\ \E w \in pending : w[1] = "pbo"

\* ---- accumulation

\* C5: when the last sample pass of a frame has been shaded, the
\* FrameAccumulator of every pixel is the sum over the passes of the pass's
\* weighted colour, a background pass adding nothing.
C5_AccumulatorIsSum ==
    (pc = "present") => dev_framebuffer = accSum

\* ---- culling

\* the position in the array before compaction of the k-th kept primitive
KthKept(keep, k) == CHOOSE j \in keep : Cardinality({x \in keep : x < j}) = k - 1

\* C6: the Culler step leaves in [0, frontPrims) exactly the primitives
\* whose cull flag was false, in their original order, with frontPrims
\* their number; and every generateFragments worker ever started works on
\* one of these survivors, never on a primitive flagged for culling (until
\* the array is released at teardown).
C6_CullerCompacts ==
    /\ [][ (pc = "loop" /\ pc' = "pass") =>
              LET keep == {k \in 1..totalNumPrimitives : ~dev_primitives[k].cull}
              IN  /\ frontPrims' = Cardinality(keep)
                  /\ frontPrims' + Cardinality((1..totalNumPrimitives) \ keep)
                        = totalNumPrimitives
                  /\ \A k \in 1..frontPrims' :
                        dev_primitives'[k] = dev_primitives[KthKept(keep, k)] ]_vars
    /\ [](flags.freedMeshes = {} =>
             \A w \in Launched :
                 w[1] = "raster" =>
                     /\ w[3] < frontPrims
                     /\ ~dev_primitives[w[3] + 1].cull)

\* a frame in which one of two primitives was culled has been rasterized
C6_Witness ==
    /\ totalNumPrimitives = 2
    /\ frontPrims = 1
    /\ \E w \in finished : w[1] = "raster" /\ fragWriter[0] = w[3]

\* ---- re-rendering

\* no two surviving primitives have the same encoded depth at a pixel
\* they both cover, in any sample pass
NoDepthTies ==
    \A s \in Passes : \A index \in Pixels : \A i, j \in 0..(frontPrims - 1) :
        (/\ i # j
         /\ Covers(dev_primitives[i + 1], PxOf(index), SampleOffset(s))
         /\ Covers(dev_primitives[j + 1], PxOf(index), SampleOffset(s)))
        => EncodedDepth(dev_primitives[i + 1], PxOf(index), SampleOffset(s))
             # EncodedDepth(dev_primitives[j + 1], PxOf(index), SampleOffset(s))

\* C7: a frame rendered again with the inputs of the frame before it, with
\* well-formed geometry and no depth ties, leaves the same output buffer.
C7_RerenderIdentical ==
    (/\ pc = "idle"
     /\ prev.valid
     /\ prev.in = frameIn
     /\ SceneWellFormed
     /\ NoDepthTies) => pbo = prev.pbo

\* ---- memory safety and errors

\* C8: no generateFragments worker reads or writes a DepthBuffer or
\* Fragment entry outside [0, width * height), wherever the triangle lies.
C8_PixelIndexInRange == ~flags.oobPixelAccess

\* a triangle that lies partly off screen has written a Fragment
C8_Witness ==
    /\ pc = "raster"
    /\ \E index \in Pixels :
          /\ fragWriter[index] # -1
          /\ LET t == TriangleOf(dev_primitives[fragWriter[index] + 1])
             IN  \E c \in 1..3 : t[c][1] < 0 \/ t[c][2] < 0
                               \/ t[c][1] > Sub * width \/ t[c][2] > Sub * height

\* C9: no assembly worker is ever started for a mesh primitive whose mode
\* is not a triangle mode, and by the time the frame's assembly is over the
\* mesh primitive has been reported as an error.
C9_UnsupportedModeRejected ==
    \A m \in Meshes :
        mesh2PrimitivesMap[m].primitiveMode \notin TriangleModes =>
            /\ AssemblyWorkersOf(m) \cap Launched = {}
            /\ <<"cull">> \in finished => flags.error

\* C10: the PrimitiveAssembler never reads a transformed vertex outside
\* [0, numVertices) of its mesh primitive.
C10_IndexRejected == ~flags.oobVertexRead

\* ---- failures

\* the per-pixel buffers and the primitive array are allocated
BuffersAllocated ==
    /\ DOMAIN dev_fragmentBuffer = Pixels
    /\ DOMAIN dev_framebuffer = Pixels
    /\ DOMAIN dev_depth = Pixels
    /\ pc \notin {"inited"} => Len(dev_primitives) = totalNumPrimitives

Scanned == pc = "scanned"

\* the pixels the worker has marked covered so far
CoveredSet == {<<c[2], c[3]>> : c \in {f \in finished : f[1] = "covered"}}

\* the pixels the worker has tested so far
TestedSet ==
    LET lp == LoopPixels(dev_primitives[1], width, height)
    IN  {lp[k] : k \in 1..Min(rw[0].k - 1, Len(lp))}

\* the edge function of the directed edge u -> v at point pt
EdgeFn(u, v, pt) ==
    (v[1] - u[1]) * (pt[2] - u[2]) - (v[2] - u[2]) * (pt[1] - u[1])

\* the half-plane containment test: pt lies on the inner side of, or on,
\* each of the three edges of a triangle of non-zero area
HalfPlaneInside(tri, pt) ==
    LET e1 == EdgeFn(tri[1], tri[2], pt)
        e2 == EdgeFn(tri[2], tri[3], pt)
        e3 == EdgeFn(tri[3], tri[1], pt)
    IN  /\ EdgeFn(tri[1], tri[2], tri[3]) # 0
        /\ \/ e1 >= 0 /\ e2 >= 0 /\ e3 >= 0
           \/ e1 <= 0 /\ e2 <= 0 /\ e3 <= 0

\* the pixels of the image whose unit cell meets the bounding box of tri
BoxPixels(tri) ==
    {px \in (0..(width - 1)) \X (0..(height - 1)) :
        /\ Sub * (px[1] + 1) > Min3(tri[1][1], tri[2][1], tri[3][1])
        /\ Sub * px[1] < Max3(tri[1][1], tri[2][1], tri[3][1])
        /\ Sub * (px[2] + 1) > Min3(tri[1][2], tri[2][2], tri[3][2])
        /\ Sub * px[2] < Max3(tri[1][2], tri[2][2], tri[3][2])}

ZeroArea(tri) == EdgeFn(tri[1], tri[2], tri[3]) = 0

\* C13: the worker of a triangle of zero screen area marks no pixel
\* covered, writes no DepthBuffer entry and writes no Fragment.
C13_ZeroAreaCoversNothing ==
    (pc \in {"scan", "scanned"} /\ ZeroArea(TriangleOf(dev_primitives[1]))) =>
        /\ CoveredSet = {}
        /\ \A index \in Pixels :
              /\ dev_depth[index] = INT_MAX
              /\ dev_fragmentBuffer[index] = NoFragment
              /\ fragWriter[index] = -1

\* the worker of a collinear triangle has tested pixels, one of them with
\* its sample point on the triangle's line, and has returned
C13_Witness ==
    /\ Scanned
    /\ ZeroArea(TriangleOf(dev_primitives[1]))
    /\ TriangleOf(dev_primitives[1])[1] # TriangleOf(dev_primitives[1])[2]
    /\ \E px \in TestedSet :
          EdgeFn(TriangleOf(dev_primitives[1])[1], TriangleOf(dev_primitives[1])[2],
                 SamplePoint(px[1], px[2], kernelArgs.sampleOffset)) = 0

\* ---- perspective-correct UV (one worker)

\* the barycentric numerators of the sample point of pixel index
BaryAt(index) ==
    BaryNum(TriangleOf(dev_primitives[1]),
            SamplePoint(PxOf(index)[1], PxOf(index)[2], kernelArgs.sampleOffset))

\* the reference: UV / z interpolated linearly (weights bc, z = 1 / rz),
\* divided by the interpolated 1 / z; uv are the vertices' texture
\* coordinates before the vertex stage
PerspectiveReference(bc, rzs, uv) ==
    [c \in 1..2 |->
        TruncDiv(Abs(bc.a * (uv[1][c] * rzs[1]) + bc.b * (uv[2][c] * rzs[2])
                     + bc.g * (uv[3][c] * rzs[3])),
                 Abs(bc.a * rzs[1] + bc.b * rzs[2] + bc.g * rzs[3]))]

\* naive barycentric interpolation of the texture coordinates
NaiveUV(bc, uv) ==
    [c \in 1..2 |->
        TruncDiv(Abs(bc.a * uv[1][c] + bc.b * uv[2][c] + bc.g * uv[3][c]), Abs(bc.den))]

VertexDepths == [c \in 1..3 |-> dev_primitives[1].v[c].rz]
UniformDepth == VertexDepths[1] = VertexDepths[2] /\ VertexDepths[2] = VertexDepths[3]

\* the stored UV of every written Fragment is the reference UV
StoredUVIsReference ==
    pc \in {"scan", "scanned"} =>
        \A index \in Pixels :
            fragWriter[index] = 0 =>
                dev_fragmentBuffer[index].UV =
                    PerspectiveReference(BaryAt(index), VertexDepths, CornerUV)

Channel255(v) ==
    IF v <= 0 THEN 0 ELSE IF v >= CUnit THEN 255 ELSE (v * 255) \div CUnit

\* C15: each sendImageToPBO worker writes its own pixel of the presentation
\* buffer, once, with the accumulator's channels clamped to [0,1] and scaled
\* to 0..255 and alpha 0, and changes no pipeline buffer; nothing else
\* writes the presentation buffer; when the frame is over every pixel has
\* been written.
C15_CompositorWritesOnce ==
    /\ [][ \A index \in Pixels :
              (<<"pbo", index>> \in pending /\ <<"pbo", index>> \notin pending') =>
                  /\ <<"pbo", index>> \notin finished
                  /\ pbo' = [pbo EXCEPT ![index] =
                               <<Channel255(dev_framebuffer[index][1]),
                                 Channel255(dev_framebuffer[index][2]),
                                 Channel255(dev_framebuffer[index][3]), 0>>]
                  /\ UNCHANGED <<dev_framebuffer, dev_fragmentBuffer, dev_depth,
                                 dev_primitives, dev_verticesOut>> ]_vars
    /\ [][ (pc # "new" /\ pbo' # pbo) =>
              \E index \in Pixels :
                  <<"pbo", index>> \in pending /\ <<"pbo", index>> \notin pending' ]_vars
    /\ []((pc = "idle" /\ <<"cull">> \in finished) =>
              \A index \in Pixels :
                  /\ <<"pbo", index>> \in finished
                  /\ pbo[index] = <<Channel255(dev_framebuffer[index][1]),
                                    Channel255(dev_framebuffer[index][2]),
                                    Channel255(dev_framebuffer[index][3]), 0>>)

\* a frame has been presented with a pixel that is neither black nor white
C15_Witness ==
    /\ pc = "idle"
    /\ <<"cull">> \in finished
    /\ \E index \in Pixels : pbo[index][1] \notin {0, 255}

\* ---- borrowed stores

\* C16: after scene load no step of any frame changes the Geometry Store
\* (index lists, positions, normals, texture coordinates, counts, modes) or
\* the texture references bound to the mesh primitives.
C16_StoresUnchanged ==
    [][pc # "inited" => UNCHANGED <<mesh2PrimitivesMap, totalNumPrimitives>>]_vars

\* a second frame, seen from behind, has been rendered from the same stores
C16_Witness ==
    /\ pc = "idle"
    /\ prev.valid
    /\ frameIn.MVP = -1
    /\ Len(mesh2PrimitivesMap) >= 1

\* ---- the cull flag

\* the triangles <<m, j>> of the frame whose three index workers have
\* returned, before the Culler moves them
AssembledTriangles ==
    IF <<"cull">> \in finished THEN {}
    ELSE {t \in UNION {{<<m, j>> : j \in 0..(mesh2PrimitivesMap[m].numPrimitives - 1)} :
                        m \in 1..Len(kernelArgs.beginId)} :
            /\ mesh2PrimitivesMap[t[1]].primitiveType = Triangle
            /\ \A k \in 0..2 : <<"assembly", t[1], 3 * t[2] + k>> \in finished}

\* the slot of dev_primitives (from 1) that triangle j of mesh primitive m fills
SlotOfTriangle(t) == t[2] + kernelArgs.beginId[t[1]] + 1

\* the eye-space normal of a vertex points away from the eye
NormalFacesAway(v) == v.vertexNormal[3] < 0

\* C17 (as stated): once the three index workers of a primitive have
\* returned, its cull flag is the test of the vertex stored last into it.
C17_FlagOfLastVertex ==
    \A t \in AssembledTriangles :
        dev_primitives[SlotOfTriangle(t)].cull = ((SlotOfTriangle(t) - 1) \in flags.lastNegZ)

\* C17 (amended): each index worker stores the test of its own vertex into
\* the flag, so once the three workers have returned the flag is the test of
\* one of the primitive's three vertices, that of the worker whose flag
\* store came last; it is the common test when the three normals agree.
C17_FlagOfLastFlagStore ==
    /\ [](\A t \in AssembledTriangles :
            \E k \in 1..3 : dev_primitives[SlotOfTriangle(t)].cull
                              = NormalFacesAway(dev_primitives[SlotOfTriangle(t)].v[k]))
    /\ [][\A w \in pending :
            (/\ w[1] = "assemblyFlag"
             /\ w \notin pending'
             /\ mesh2PrimitivesMap[w[2]].primitiveType = Triangle
             /\ (w[3] \div 3) + kernelArgs.beginId[w[2]] < Len(dev_primitives))
            => LET pid == (w[3] \div 3) + kernelArgs.beginId[w[2]]
               IN  /\ dev_primitives'[pid + 1].cull
                        = NormalFacesAway(dev_primitives[pid + 1].v[(w[3] % 3) + 1])
                   /\ dev_primitives'[pid + 1].v = dev_primitives[pid + 1].v]_vars

\* an assembled triangle whose normals disagree carries a flag that is not
\* the test of the vertex stored last
C17_Witness ==
    \E t \in AssembledTriangles :
        LET p == dev_primitives[SlotOfTriangle(t)]
        IN  /\ \E k \in 1..3 : NormalFacesAway(p.v[k])
            /\ \E k \in 1..3 : ~NormalFacesAway(p.v[k])
            /\ p.cull # ((SlotOfTriangle(t) - 1) \in flags.lastNegZ)

\* ---- assembly

\* the index workers of the frame that belong to triangle lists and have
\* been launched
TriangleIndexWorkers ==
    {w \in UNION {{<<m, iid>> : iid \in 0..(mesh2PrimitivesMap[m].numIndices - 1)} :
                    m \in 1..Len(kernelArgs.beginId)} :
        mesh2PrimitivesMap[w[1]].primitiveType = Triangle}

\* the vertex slot <<primitive, slot>> that index worker <<m, i>> stores to
VertexSlotOf(w) == <<(w[2] \div 3) + kernelArgs.beginId[w[1]], w[2] % 3>>

\* indices[i] of index worker <<m, i>> names a vertex of the mesh primitive
IndexInRange(w) ==
    /\ mesh2PrimitivesMap[w[1]].dev_indices[w[2] + 1] >= 0
    /\ mesh2PrimitivesMap[w[1]].dev_indices[w[2] + 1] < mesh2PrimitivesMap[w[1]].numVertices

\* the transformed vertex that indices[i] of index worker <<m, i>> names
SourceVertex(w) ==
    dev_verticesOut[w[1]][mesh2PrimitivesMap[w[1]].dev_indices[w[2] + 1] + 1]

PassStart ==
    /\ pc = "raster"
    /\ \A i \in 0..(frontPrims - 1) :
          IF <<"raster", sampleIdx, i>> \in pending
          THEN rw[i] = [k |-> 1, ph |-> "min"]
          ELSE CoveredPixels(dev_primitives[i + 1], width, height,
                             SampleOffset(sampleIdx)) = <<>>

\* C19: when the Rasterizer of a pass starts every DepthBuffer entry is
\* INT_MAX and every Fragment slot is background; the FrameAccumulator is
\* zero when the first pass starts, and from the Culler to the end of the
\* frame no step takes anything away from an accumulator entry.
C19_PassStartState ==
    /\ [](PassStart =>
            /\ \A i \in Pixels : dev_depth[i] = INT_MAX
            /\ \A i \in Pixels : dev_fragmentBuffer[i] = NoFragment
            /\ sampleIdx = 0 => \A i \in Pixels : dev_framebuffer[i] = <<0, 0, 0>>)
    /\ [][(<<"cull">> \in finished /\ <<"cull">> \in finished')
            => \A i \in Pixels : \A c \in 1..3 :
                  dev_framebuffer'[i][c] >= dev_framebuffer[i][c]]_vars

\* ------------------------------------------------------------ the sampler
\* A third specification: one render thread samples the texture of its
\* fragment, one colorAtPoint call at a time, with either sampler.

\* texture sizes
TexDims == {1, 2, 3} \X {1, 2, 3}

\* fragment UVs of the closed unit square, in steps of 1 / UVUnit
UnitSquareUVs == (0..UVUnit) \X (0..UVUnit)

\* the fragment of the sampling thread
SampledFragment == dev_fragmentBuffer[0]

\* the texel indices the sampler named by pc passes to colorAtPoint
TexelReads ==
    LET f == SampledFragment
    IN  IF pc = "sample" THEN << TexelIndex(f.UV, f.texWidth, f.texHeight) >>
        ELSE BilinearTexelIndices(f.UV, f.texWidth, f.texHeight)

InitSampler ==
    /\ width = 1 /\ height = 1
    /\ \E uv \in UnitSquareUVs : \E d \in TexDims :
          dev_fragmentBuffer =
             (0 :> [eyeNormal |-> Up, UV |-> uv, diffuseTexture |-> 1,
                    texWidth |-> d[1], texHeight |-> d[2]])
    /\ dev_framebuffer = (0 :> <<0, 0, 0>>)
    /\ dev_depth = (0 :> INT_MAX)
    /\ pbo = (0 :> <<0, 0, 0, 0>>)
    /\ fragWriter = (0 :> 0)
    /\ accSum = (0 :> <<0, 0, 0>>)
    /\ mesh2PrimitivesMap = <<>>
    /\ totalNumPrimitives = 0
    /\ dev_verticesOut = <<>>
    /\ dev_primitives = <<>>
    /\ curPrimitiveBeginId = 0
    /\ frontPrims = 0
    /\ pc \in {"sample", "sampleBilinear"}
    /\ it = 1
    /\ sampleIdx = 0
    /\ kernelArgs = [beginId |-> <<>>, sampleOffset |-> SampleOffset(0), numPrimitives |-> 0]
    /\ frameIn = [MVP |-> 1, MV_normal |-> 1]
    /\ pending = {<<"render", 0, 0>>}
    /\ rw = (0 :> [k |-> 1, ph |-> "read"])
    /\ finished = {}
    /\ prev = [valid |-> FALSE]
    /\ flags = NoFlags

\* the next colorAtPoint call of the sampler: the read of texel index r
ReadTexel ==
    /\ pc \in {"sample", "sampleBilinear"}
    /\ rw[0].k <= Len(TexelReads)
    /\ LET r == TexelReads[rw[0].k]
           f == SampledFragment
       IN  /\ finished' = finished \cup {<<"texel", rw[0].k, r>>}
           /\ flags' = [flags EXCEPT !.oobTexelRead =
                           @ \/ r < 0 \/ r >= f.texWidth * f.texHeight]
    /\ rw' = [rw EXCEPT ![0].k = @ + 1]
    /\ UNCHANGED <<imageVars, loadVars, dev_verticesOut, dev_primitives, bufVars, pbo,
                   curPrimitiveBeginId, frontPrims, pc, it, sampleIdx, frameIn,
                   kernelArgs, pending, fragWriter, prev, accSum>>

\* the sampler returns after its last read
SamplerReturn ==
    /\ pc \in {"sample", "sampleBilinear"}
    /\ rw[0].k > Len(TexelReads)
    /\ pc' = "sampled"
    /\ pending' = {}
    /\ UNCHANGED <<imageVars, loadVars, dev_verticesOut, dev_primitives, bufVars, pbo,
                   curPrimitiveBeginId, frontPrims, it, sampleIdx, frameIn,
                   kernelArgs, rw, finished, fragWriter, prev, accSum, flags>>

NextSampler == ReadTexel \/ SamplerReturn

SpecSampler == InitSampler /\ [][NextSampler]_vars

\* the texel <<column, row>> that holds the continuous position uv
BaseTexel(f) ==
    << (f.UV[1] * f.texWidth) \div UVUnit, (f.UV[2] * f.texHeight) \div UVUnit >>

\* the texel the k-th read is meant for: the base texel, its right, upper
\* and diagonal neighbour, and an edge texel of the base row and column where
\* that neighbour does not exist
MeantTexel(f, k) ==
    LET dx == IF k \in {2, 4} THEN 1 ELSE 0
        dy == IF k \in {3, 4} THEN 1 ELSE 0
        b == BaseTexel(f)
    IN  IF b[1] + dx < f.texWidth /\ b[2] + dy < f.texHeight
        THEN <<b[1] + dx, b[2] + dy>>
        ELSE <<Min(b[1], f.texWidth - 1), Min(b[2], f.texHeight - 1)>>

\* C20: for a fragment UV in the closed unit square every texel index the
\* sampler reads lies in [0, W*H), and it is the index of the texel meant:
\* a neighbour past the right or top edge is read from an edge texel of the
\* same row and column range, never from a texel of another row reached by
\* wrapping.
C20_TexelReadsInRange ==
    \A e \in finished :
        e[1] = "texel" =>
            LET f == SampledFragment
                m == MeantTexel(f, e[2])
            IN  /\ e[3] >= 0 /\ e[3] < f.texWidth * f.texHeight
                /\ e[3] = m[1] + f.texWidth * m[2]

\* ---- buffer lifetime

\* C21: over the calls rasterizeInit, rasterizeSetBuffers, rasterize ...,
\* rasterizeFree ... the buffers of the mesh primitives are freed by
\* rasterizeFree only, no buffer is freed twice, and no frame runs on
\* buffers that have been freed.
C21_BuffersFreedOnce ==
    /\ [](~flags.doubleFree)
    /\ [](pc \notin {"freed", "aborted"} => flags.freedMeshes = {})
    /\ [][flags.freedMeshes' # flags.freedMeshes => pc \in {"idle", "freed"}]_vars

\* ---- termination

\* C22: under fair scheduling every frame that rasterize starts reaches the
\* FrameCompositor and returns, and when the FrameCompositor is launched
\* exactly SAMPLES * SAMPLES passes have run, each with all its Rasterizer
\* and Shader workers finished.
C22_FrameCompletes ==
    /\ (pc = "loop") ~> (pc = "idle")
    /\ [](pc = "present" =>
            /\ sampleIdx = SAMPLES * SAMPLES
            /\ \A s \in Passes : RasterWorkersOf(s) \cup RenderWorkersOf(s) \subseteq finished)

\* ---- the minimum writer

\* the Rasterizer workers of the pass have all returned
PassOver == pc = "scanned" \/ RasterDone

\* C23: when a sample pass over well-formed geometry completes, every pixel
\* covered by at least one surviving primitive holds a Fragment written in
\* that pass by one of the primitives that cover it.
C23_CoveredPixelHasFragment ==
    (PassOver /\ SceneWellFormed) =>
        \A index \in Pixels :
            Writers(index) # {} => fragWriter[index] \in Writers(index)

\* ---- uncovered pixels

\* pixel index lies in the clamped bounding box of the primitive of worker i
\* and its sample point passes the coverage test
OwnPixel(i, index) ==
    LET tri == TriangleOf(dev_primitives[i + 1])
    IN  /\ PxOf(index) \in BoxPixels(tri)
        /\ HalfPlaneInside(tri, SamplePoint(PxOf(index)[1], PxOf(index)[2],
                                            kernelArgs.sampleOffset))

\* C24: while the Rasterizer of a pass runs, a DepthBuffer or Fragment
\* entry changes only in a step of a worker whose primitive has the pixel
\* in its clamped bounding box and covers it; so when the workers have
\* returned, every pixel covered by no surviving primitive still has depth
\* INT_MAX and a background Fragment.
C24_UncoveredUntouched ==
    /\ [][pc = "raster" =>
            \A index \in Pixels :
                (\/ dev_depth'[index] # dev_depth[index]
                 \/ dev_fragmentBuffer'[index] # dev_fragmentBuffer[index])
                => \E i \in 0..(frontPrims - 1) :
                      rw'[i] # rw[i] /\ OwnPixel(i, index)]_vars
    /\ [](RasterDone =>
            \A index \in Pixels :
                (\A i \in 0..(frontPrims - 1) : ~OwnPixel(i, index))
                => /\ dev_depth[index] = INT_MAX
                   /\ dev_fragmentBuffer[index] = NoFragment)

\* a pass has ended with a Fragment written at one pixel and another pixel,
\* inside the loop range of a surviving primitive, covered by none
C24_Witness ==
    /\ RasterDone
    /\ \E index \in Pixels : fragWriter[index] # -1
    /\ \E index \in Pixels :
          /\ \A i \in 0..(frontPrims - 1) : ~OwnPixel(i, index)
          /\ \E i \in 0..(frontPrims - 1) :
                PxOf(index) \in BoxPixels(TriangleOf(dev_primitives[i + 1]))

\* ------------------------------------------------------------------ C25

\* the mesh primitives whose _primitiveAssembly has been launched in the
\* running frame
AssembledMeshes == 1..Len(kernelArgs.beginId)

\* [offset, offset + numPrimitives) of mesh primitive m: the offset is the
\* curPrimitiveBeginId its launch was given
OwnRange(m) ==
    kernelArgs.beginId[m] ..
        (kernelArgs.beginId[m] + mesh2PrimitivesMap[m].numPrimitives - 1)

\* the primitive slot thread iid of mesh primitive m stores to
SlotWrittenBy(m, iid) ==
    <<PrimitiveId(iid, mesh2PrimitivesMap[m].primitiveType, kernelArgs.beginId[m]),
      iid % mesh2PrimitivesMap[m].primitiveType>>

\* the vertex slots <<pid, k>> stored to so far in the running frame
WrittenSlots ==
    {SlotWrittenBy(w[2], w[3]) :
        w \in {x \in pending : x[1] = "assemblyFlag"} \cup
              {x \in finished : x[1] = "assembly"}}

\* the loop over mesh2PrimitivesMap has ended and the device is idle:
\* thrust::remove_if is next
AssemblyOver ==
    /\ pc = "loop" /\ it > Len(mesh2PrimitivesMap)
    /\ Len(mesh2PrimitivesMap) > 0
    /\ pending = {}

\* C25: every assembly thread of a loaded mesh primitive stores to a
\* primitive of that mesh primitive's own range [offset, offset +
\* numPrimitives), which lies inside [0, totalNumPrimitives); the ranges of
\* different mesh primitives are disjoint; and when assembly is over all
\* three vertex slots of every primitive in [0, totalNumPrimitives) have
\* been written in the running frame.
C25_AssemblyFillsRanges ==
    /\ \A m \in AssembledMeshes :
          \A iid \in 0..(mesh2PrimitivesMap[m].numIndices - 1) :
             /\ SlotWrittenBy(m, iid)[1] \in OwnRange(m)
             /\ SlotWrittenBy(m, iid)[1] \in 0..(totalNumPrimitives - 1)
    /\ \A m1, m2 \in AssembledMeshes :
          m1 # m2 => OwnRange(m1) \cap OwnRange(m2) = {}
    /\ AssemblyOver =>
          \A q \in 0..(totalNumPrimitives - 1) : \A k \in 0..2 :
             <<q, k>> \in WrittenSlots

\* ------------------------------------------------------------------ C26

\* the number of Primitive elements dev_primitives was allocated for
Capacity == Len(dev_primitives)

\* C26: after any sequence of rasterizeSetBuffers calls the capacity of the
\* primitive array is totalNumPrimitives, which is the sum of numPrimitives
\* over the entries of mesh2PrimitivesMap, and the running offset
\* curPrimitiveBeginId of a frame stays within the capacity.
C26_CapacityCoversMap ==
    pc # "aborted" =>
       /\ Capacity = totalNumPrimitives
       /\ totalNumPrimitives = SumPrims(mesh2PrimitivesMap)
       /\ curPrimitiveBeginId <= Capacity

====
